---- MODULE Spec2Model ----
(***************************************************************************)
(* The remote-object proxy of embodied/core/parallel.py: the Proxy         *)
(* (class Parallel), the Remote Dispatcher (Parallel._respond), the        *)
(* Command Protocol (class Message) and the Worker Transport they talk     *)
(* through (embodied/core/worker.py, modelled from its contract in         *)
(* spec.md sections 5 and 6); the pin-pad environment of                   *)
(* embodied/envs/pinpad-dense.py (class PinPadDense); the constructor of   *)
(* embodied/envs/minigrid.py (class Minigrid) under threads; and the two   *)
(* simulated training loops of test_eval_timing_simple.py.                 *)
(*                                                                         *)
(* Spec runs one Proxy, SpecTwo two Proxies, SpecFault a Proxy over a      *)
(* Target whose getter raises; SpecPinPad runs short episodes of the       *)
(* environment, SpecWalk long ones, SpecSuffix its suffix match;           *)
(* SpecMinigrid runs the constructing threads and SpecSim the loops.       *)
(***************************************************************************)
EXTENDS Integers, Sequences, FiniteSets, TLC

(* ---------------------------------------------------------------- bounds *)

\* The client stops invoking increment() once the counter has this value.
MaxCount == 2

\* The client stops sending once the constructor has run this many times.
MaxCtor == 5

(* ------------------------------------------------------ Command Protocol *)

\* class Message(enum.Enum): the three commands and the error sentinel.
CALLABLE == "CALLABLE"
CALL == "CALL"
READ == "READ"
ERROR_ATTRIBUTE == [t |-> "Message", v |-> 5]

\* Result values. Every value is a record [t, v] so that values of
\* different Python types compare unequal instead of being incomparable.
IntV(i) == [t |-> "int", v |-> i]
BoolV(b) == [t |-> "bool", v |-> IF b THEN 1 ELSE 0]
NoneV == [t |-> "NoneType", v |-> 0]
MethodV == [t |-> "method", v |-> 0]
NoAnswer == [t |-> "no answer", v |-> 0]

\* Python truthiness of a CALLABLE answer stored in the cache: `if
\* self.callables[name]`. An enum member is truthy; False is not.
PyTruthy(val) == ~(val = BoolV(FALSE))

(* ---------------------------------------------------------------- Target *)

\* The classes the configured constructor may build. Every one is the
\* counter of spec.md section 8 (field count, method increment) with a
\* method morph() that deletes the field count and sets the field extra;
\* they differ in the special methods they define.
\*   hasLen / lenVal : defines __len__, returning lenVal
\*   hasBool         : defines __bool__, returning True
\*   hasClose        : defines its own method close()
PlainCounter == [hasLen |-> FALSE, lenVal |-> 0, hasBool |-> FALSE, hasClose |-> FALSE]
EmptyCounter == [hasLen |-> TRUE, lenVal |-> 0, hasBool |-> FALSE, hasClose |-> TRUE]
EnvCounter == [hasLen |-> TRUE, lenVal |-> 0, hasBool |-> TRUE, hasClose |-> TRUE]
SizedCounter == [hasLen |-> TRUE, lenVal |-> 1, hasBool |-> FALSE, hasClose |-> FALSE]
CtorShapes == {PlainCounter, EmptyCounter, EnvCounter, SizedCounter}

\* The member names the client uses. "_count" stands for the private
\* names; "close" and the private "_respond" are also attributes of the
\* Proxy itself.
LenName == "__len__"
Names == {"increment", "count", "extra", "morph", "close", "_count", "_respond"}

\* Argument tuples the client passes to a call-forwarder. No method of the
\* Target takes an argument: a call with one raises TypeError.
ArgTuples == {<<>>, <<1>>}

VARIABLES
    shape,      \* the class the constructor builds (fixed at construction)
    callables,  \* Parallel.callables: the capability cache (a dict)
    worker,     \* the transport: "running", "closed" or "dead"
    state,      \* the dispatcher's persisted state: None or the Target
    chan,       \* the transport's request/response slot
    pc,         \* where the calling thread is: "idle" or blocked in a send
    last,       \* the last Proxy operation and what it gave its caller
    ctorCalls,  \* how often the constructor has run
    probes,     \* per name, how many CALLABLE messages were sent
    accessed,   \* the names accessed on the Proxy so far
    local,      \* a local instance of Target, operated on directly
    other,      \* a second Proxy, the one the client is not addressing
    \* class PinPadDense (embodied/envs/pinpad-dense.py)
    player,                  \* self.player: None or the cell (x, y)
    sequence,                \* self.sequence: the deque of pads stepped on
    steps,                   \* self.steps (0 stands for None before a reset)
    done,                    \* self.done (FALSE stands for None)
    countdown,               \* self.countdown (0 stands for None)
    position_visit_counts,   \* self.position_visit_counts: the cells with
                             \* a count above 0, and their counts
    obs,                     \* what the last call of step returned
    call,                    \* the last call of step: its number and inputs
    plan,                    \* the inputs the agent driving step will give
    query,                   \* a pad sequence and its suffix match
    \* class Minigrid (embodied/envs/minigrid.py), constructed by threads
    LOCK,                    \* Minigrid.LOCK: None or the lock stored there
    locks,                   \* how many mp.Lock() objects were created
    thread,                  \* per constructing thread: its line, its locals
    \* the simulated training loops of test_eval_timing_simple.py
    sim                      \* the loop's position, counter, metrics, log

proxyVars == <<shape, callables, worker, state, chan, pc, last, ctorCalls,
               probes, accessed, local, other>>

envVars == <<player, sequence, steps, done, countdown, position_visit_counts,
             obs, call>>

sideVars == <<plan, query, LOCK, locks, thread, sim>>

vars == <<proxyVars, envVars, sideVars>>

\* The persisted state before the first message, and a freshly built Target.
NoState == [some |-> FALSE, count |-> 0, morphed |-> FALSE]
Ctor == [some |-> TRUE, count |-> 0, morphed |-> FALSE]

\* bool(state): None is false; an object is false when its __bool__ says
\* so or, lacking __bool__, when its __len__ returns 0.
Truthy(s) ==
    /\ s.some
    /\ \/ shape.hasBool
       \/ ~shape.hasLen
       \/ shape.lenVal # 0

\* The names used with a Target that fails: "broken" is a property of
\* every class whose getter raises ValueError.
FaultNames == {"broken", "count", "increment"}
AllNames == Names \cup FaultNames

\* getattr(target, name) raises an exception that is not AttributeError
GetterRaises(name) == name = "broken"

\* hasattr(target, name)
HasMember(t, name) ==
    CASE name = "increment" -> TRUE
      [] name = "morph" -> TRUE
      [] name = "count" -> ~t.morphed
      [] name = "extra" -> t.morphed
      [] name = "close" -> shape.hasClose
      [] name = LenName -> shape.hasLen
      [] name = "_count" -> TRUE
      [] name = "broken" -> TRUE
      [] OTHER -> FALSE

\* callable(getattr(target, name)), for a member that exists
IsMethod(name) == name \in {"increment", "morph", "close", LenName}

\* getattr(target, name), for a member that exists
GetAttr(t, name) ==
    CASE name = "count" -> IntV(t.count)
      [] name = "extra" -> IntV(1)
      [] OTHER -> MethodV

\* getattr(target, name)(*args): the Target afterwards, the value returned,
\* the exception raised ("" when none) and whether the body of a method
\* ran (a value that is not callable, and a method given an argument it
\* does not take, raise TypeError before any body runs).
Invoke(t, name, args) ==
    IF ~IsMethod(name)
    THEN [state |-> t, result |-> NoneV, exc |-> "TypeError", ran |-> FALSE]
    ELSE IF args # <<>>
    THEN [state |-> t, result |-> NoneV, exc |-> "TypeError", ran |-> FALSE]
    ELSE CASE name = "increment" ->
                  IF t.morphed
                  THEN [state |-> t, result |-> NoneV, exc |-> "AttributeError",
                        ran |-> TRUE]
                  ELSE [state |-> [t EXCEPT !.count = t.count + 1],
                        result |-> IntV(t.count + 1), exc |-> "", ran |-> TRUE]
           [] name = "morph" ->
                  [state |-> [t EXCEPT !.morphed = TRUE], result |-> NoneV,
                   exc |-> "", ran |-> TRUE]
           [] name = LenName ->
                  [state |-> t, result |-> IntV(shape.lenVal), exc |-> "",
                   ran |-> TRUE]
           [] OTHER -> [state |-> t, result |-> NoneV, exc |-> "", ran |-> TRUE]

(* ------------------------------------------------------ Remote Dispatcher *)

\* `state or ctor()`: whether the constructor runs for this message.
RunsCtor(s) == ~Truthy(s)

\* Respond without its `except AttributeError` clause: a failed lookup
\* leaves the dispatcher as an exception.
RespondNoExcept(s, message, name, args) ==
    LET target == IF RunsCtor(s) THEN Ctor ELSE s
        found == HasMember(target, name)
    IN  IF ~found
        THEN [state |-> target, result |-> NoAnswer, exc |-> "AttributeError",
              found |-> FALSE, invoked |-> 0]
        ELSE CASE message = CALLABLE ->
                      [state |-> target, result |-> BoolV(IsMethod(name)),
                       exc |-> "", found |-> TRUE, invoked |-> 0]
               [] message = CALL ->
                      LET r == Invoke(target, name, args)
                      IN  [state |-> r.state, result |-> r.result,
                           exc |-> r.exc, found |-> TRUE,
                           invoked |-> IF r.ran THEN 1 ELSE 0]
               [] message = READ ->
                      [state |-> target, result |-> GetAttr(target, name),
                       exc |-> "", found |-> TRUE, invoked |-> 0]

\* A dispatcher whose CALLABLE branch calls the member to classify it:
\* callable(getattr(state, name)()).
RespondProbeInvokes(s, message, name, args) ==
    LET target == IF RunsCtor(s) THEN Ctor ELSE s
        found == HasMember(target, name)
        r == Invoke(target, name, args)
    IN  IF ~found \/ r.exc = "AttributeError"
        THEN [state |-> target, result |-> ERROR_ATTRIBUTE, exc |-> "",
              found |-> found, invoked |-> 0]
        ELSE CASE message = CALLABLE ->
                      [state |-> r.state, result |-> BoolV(IsMethod(name)),
                       exc |-> "", found |-> TRUE,
                       invoked |-> IF r.ran THEN 1 ELSE 0]
               [] message = CALL ->
                      [state |-> r.state, result |-> r.result, exc |-> r.exc,
                       found |-> TRUE, invoked |-> IF r.ran THEN 1 ELSE 0]
               [] message = READ ->
                      [state |-> target, result |-> GetAttr(target, name),
                       exc |-> "", found |-> TRUE, invoked |-> 0]

\* Parallel._respond(ctor, state, message, name, *args): the pair it
\* returns (state, result), or the exception that leaves it (exc # "").
\* found: whether getattr(state, name) succeeded.
Respond(s, message, name, args) ==
    LET target == IF RunsCtor(s) THEN Ctor ELSE s
        found == HasMember(target, name)
        miss == [state |-> target, result |-> ERROR_ATTRIBUTE, exc |-> "",
                 found |-> found, invoked |-> 0]
        failed(exc) == [state |-> target, result |-> NoAnswer, exc |-> exc,
                        found |-> FALSE, invoked |-> 0]
    IN  IF message \in {CALLABLE, READ} /\ args # <<>>
        THEN failed("AssertionError")      \* assert not args and not kwargs
        ELSE IF message \notin {CALLABLE, CALL, READ}
        THEN failed("UnboundLocalError")   \* no branch assigns result
        ELSE IF ~found THEN miss
        ELSE IF GetterRaises(name)
        THEN [failed("ValueError") EXCEPT !.found = TRUE]
        ELSE CASE message = CALLABLE ->
                      [state |-> target, result |-> BoolV(IsMethod(name)),
                       exc |-> "", found |-> TRUE, invoked |-> 0]
               [] message = CALL ->
                      LET r == Invoke(target, name, args)
                          n == IF r.ran THEN 1 ELSE 0
                      IN  IF r.exc = "AttributeError"
                          THEN [miss EXCEPT !.state = r.state, !.invoked = n]
                          ELSE [state |-> r.state, result |-> r.result,
                                exc |-> r.exc, found |-> TRUE, invoked |-> n]
               [] message = READ ->
                      [state |-> target, result |-> GetAttr(target, name),
                       exc |-> "", found |-> TRUE, invoked |-> 0]

\* The same operation done directly on a local instance: what a caller
\* holding the object itself gets.
Direct(t, message, name, args) ==
    IF ~HasMember(t, name)
    THEN [state |-> t, tag |-> "AttributeError", val |-> NoneV]
    ELSE IF GetterRaises(name)
    THEN [state |-> t, tag |-> "ValueError", val |-> NoneV]
    ELSE CASE message = CALLABLE ->
                  [state |-> t, tag |-> "value", val |-> BoolV(IsMethod(name))]
           [] message = READ ->
                  [state |-> t, tag |-> "value", val |-> GetAttr(t, name)]
           [] message = CALL ->
                  LET r == Invoke(t, name, args)
                  IN  IF r.exc # ""
                      THEN [state |-> r.state, tag |-> r.exc, val |-> NoneV]
                      ELSE [state |-> r.state, tag |-> "value", val |-> r.result]

(* ------------------------------------------------------- Worker Transport *)

Empty == [st |-> "empty", message |-> "", name |-> "", args |-> <<>>,
          result |-> NoAnswer, exc |-> "", found |-> FALSE, invoked |-> 0,
          expect |-> [tag |-> "", val |-> NoneV]]

Request(message, name, args) ==
    [Empty EXCEPT !.st = "request", !.message = message, !.name = name, !.args = args]

\* The bound of the model: a send is possible while the constructor count
\* is below MaxCtor (reached only when the Target is rebuilt per message).
CanSend == ctorCalls < MaxCtor

(* ----------------------------------------------------------------- Proxy *)

\* The names normal attribute lookup finds on the Proxy object itself, so
\* that __getattr__ is never called for them: the instance attributes
\* worker and callables, the method close and the static method _respond.
ProxyOwn == {"worker", "callables", "close", "_respond"}

\* A Proxy without the test for the leading underscore.
IsPrivateNever(name) == FALSE

\* name.startswith("_")
IsPrivate(name) == name \in {"_count", "_respond"}

\* A store that replaces the dictionary by one that holds the new entry
\* only.
StoreFresh(cache, name, value) == [n \in {name} |-> value]

\* self.callables[name] = value
Store(cache, name, value) ==
    [n \in DOMAIN cache \cup {name} |-> IF n = name THEN value ELSE cache[n]]

\* The entry of name in the cache, NoAnswer when it has none.
Entry(cache, name) == IF name \in DOMAIN cache THEN cache[name] ELSE NoAnswer

\* NeedsProbe probing again a name cached as absent.
NeedsProbeRetryAbsent(cache, name) ==
    name \notin DOMAIN cache \/ cache[name] = ERROR_ATTRIBUTE

\* `name not in self.callables`: whether __getattr__ sends a CALLABLE probe.
NeedsProbe(cache, name) == name \notin DOMAIN cache

\* Classify without the test for the sentinel (lines 17 and 18 left out):
\* the sentinel, an enum member, is truthy.
ClassifyNoSentinelTest(entry) == IF PyTruthy(entry) THEN "forwarder" ELSE "read"

\* Classify with the test of the entry inverted: a READ for a callable, a
\* call-forwarder for a value.
ClassifyInverted(entry) ==
    IF entry = ERROR_ATTRIBUTE THEN "raise"
    ELSE IF PyTruthy(entry) THEN "read"
    ELSE "forwarder"

\* What __getattr__ does with the cached entry of a name: raise
\* AttributeError, return a call-forwarder, or send a READ.
Classify(entry) ==
    IF entry = ERROR_ATTRIBUTE THEN "raise"
    ELSE IF PyTruthy(entry) THEN "forwarder"
    ELSE "read"

\* An access that hands out the answer to its READ without the recheck of
\* lines 23 and 24.
ReadOutcomeNoRecheck(result) == [tag |-> "value", val |-> result]

\* What __getattr__ does with the answer to its READ.
ReadOutcome(result) ==
    IF result = ERROR_ATTRIBUTE
    THEN [tag |-> "AttributeError", val |-> NoneV]
    ELSE [tag |-> "value", val |-> result]

\* What the caller of a call-forwarder, or of __len__, gets from the answer
\* to its CALL: the result as it is.
CallOutcome(result) == [tag |-> "value", val |-> result]

\* The record of a Proxy operation that starts now. sent: the messages the
\* operation sent; answers: the dispatcher's answer to each (NoAnswer when
\* it raised); cached0: the cache entry of the name when the operation
\* began; expect: what the same operation gives on the local instance;
\* closed0: whether close() had been called before; args: the arguments
\* the caller of a call-forwarder supplied.
Begin(op, name) ==
    [op |-> op, name |-> name, tag |-> "pending", val |-> NoneV, sent |-> <<>>,
     cached0 |-> Entry(callables, name), answers |-> <<>>,
     expect |-> [tag |-> "", val |-> NoneV], closed0 |-> worker = "closed",
     args |-> <<>>]

\* The operation gives its caller a value or raises; the thread is idle again.
Finish(rec, tag, val) ==
    /\ last' = [rec EXCEPT !.tag = tag, !.val = val]
    /\ pc' = "idle"
    /\ chan' = Empty
    /\ UNCHANGED probes

\* A send that leaves the promise unresolved: the request goes to the
\* worker and the operation returns without waiting for the answer.
SendMsgNoWait(rec, message, name, args, await) ==
    IF worker = "running"
    THEN /\ chan' = Request(message, name, args)
         /\ pc' = "idle"
         /\ last' = [rec EXCEPT !.sent = Append(@, message), !.tag = "promise"]
         /\ probes' = IF message = CALLABLE
                      THEN [probes EXCEPT ![name] = @ + 1]
                      ELSE probes
    ELSE Finish(rec, "TransportFault", NoneV)

\* self.worker(message, name, *args): the request goes to the worker and
\* the thread blocks for the answer; a worker that is closed or dead fails
\* the send.
SendMsg(rec, message, name, args, await) ==
    IF worker = "running"
    THEN /\ chan' = Request(message, name, args)
         /\ pc' = await
         /\ last' = [rec EXCEPT !.sent = Append(@, message)]
         /\ probes' = IF message = CALLABLE
                      THEN [probes EXCEPT ![name] = @ + 1]
                      ELSE probes
    ELSE Finish(rec, "TransportFault", NoneV)

\* __getattr__ from the cache entry on (lines 17 to 25).
AfterCache(rec, name, cache) ==
    LET c == Classify(cache[name])
    IN  CASE c = "raise" -> Finish(rec, "AttributeError", NoneV)
          [] c = "forwarder" -> Finish(rec, "forwarder", NoneV)
          [] OTHER -> SendMsg(rec, READ, name, <<>>, "awaitRead")

\* proxy.<name>: a member access by the client.
Getattr(name) ==
    /\ pc = "idle"
    /\ CanSend
    /\ accessed' = accessed \cup {name}
    /\ LET rec == Begin("getattr", name)
       IN  IF name \in ProxyOwn THEN Finish(rec, "own", MethodV)
           ELSE IF IsPrivate(name) THEN Finish(rec, "AttributeError", NoneV)
           ELSE IF NeedsProbe(callables, name)
           THEN SendMsg(rec, CALLABLE, name, <<>>, "awaitCallable")
           ELSE AfterCache(rec, name, callables)
    /\ UNCHANGED <<shape, callables, worker, state, ctorCalls, local>>
    /\ UNCHANGED <<other, envVars, sideVars>>

\* A cache that is an attribute of the class: a store by one Proxy is a
\* store in the cache of every Proxy.
OtherAfterStoreShared(o, cache) == [o EXCEPT !.callables = cache]

\* self.callables = {} in __init__: the dict belongs to the instance, a
\* store in it leaves the Proxy that is not addressed as it is.
OtherAfterStore(o, cache) == o

\* An access that stores the sentinel for a name whose probe raised.
RecvCallableCachesFailure ==
    /\ pc = "awaitCallable"
    /\ chan.st \in {"response", "raised"}
    /\ LET rec == [last EXCEPT !.answers = Append(@, chan.result), !.expect = chan.expect]
       IN  IF chan.st = "raised"
           THEN /\ Finish(rec, chan.exc, NoneV)
                /\ callables' = Store(callables, chan.name, ERROR_ATTRIBUTE)
           ELSE /\ callables' = Store(callables, chan.name, chan.result)
                /\ AfterCache(rec, chan.name, callables')
    /\ other' = OtherAfterStore(other, callables')
    /\ UNCHANGED <<envVars, sideVars>>
    /\ UNCHANGED <<shape, worker, state, ctorCalls, accessed, local>>

\* The answer to the CALLABLE probe arrives: it is stored and the access
\* goes on. A probe that raised stores nothing.
RecvCallable ==
    /\ pc = "awaitCallable"
    /\ chan.st \in {"response", "raised"}
    /\ LET rec == [last EXCEPT !.answers = Append(@, chan.result), !.expect = chan.expect]
       IN  IF chan.st = "raised"
           THEN Finish(rec, chan.exc, NoneV) /\ UNCHANGED callables
           ELSE /\ callables' = Store(callables, chan.name, chan.result)
                /\ AfterCache(rec, chan.name, callables')
    /\ other' = OtherAfterStore(other, callables')
    /\ UNCHANGED <<envVars, sideVars>>
    /\ UNCHANGED <<shape, worker, state, ctorCalls, accessed, local>>

\* The answer to the READ arrives.
RecvRead ==
    /\ pc = "awaitRead"
    /\ chan.st \in {"response", "raised"}
    /\ LET rec == [last EXCEPT !.answers = Append(@, chan.result), !.expect = chan.expect]
           out == ReadOutcome(chan.result)
       IN  IF chan.st = "raised"
           THEN Finish(rec, chan.exc, NoneV)
           ELSE Finish(rec, out.tag, out.val)
    /\ UNCHANGED <<shape, callables, worker, state, ctorCalls, accessed, local>>
    /\ UNCHANGED <<other, envVars, sideVars>>

\* A forwarder is in the client's hands once an access has returned one.
HasForwarder(name) == name \in DOMAIN callables /\ Classify(callables[name]) = "forwarder"

\* A forwarder that binds the name only and sends the CALL without the
\* caller's arguments.
CallForwarderDropsArgs(name, args) ==
    /\ pc = "idle"
    /\ CanSend
    /\ HasForwarder(name)
    /\ name = "increment" => local.count < MaxCount
    /\ SendMsg([Begin("call", name) EXCEPT !.args = args], CALL, name, <<>>, "awaitCall")
    /\ UNCHANGED <<shape, callables, worker, state, ctorCalls, accessed, local>>
    /\ UNCHANGED <<other, envVars, sideVars>>

\* A forwarder bound to Message.READ: the caller's arguments travel with
\* a READ.
CallForwarderBindsRead(name, args) ==
    /\ pc = "idle"
    /\ CanSend
    /\ HasForwarder(name)
    /\ name = "increment" => local.count < MaxCount
    /\ SendMsg([Begin("call", name) EXCEPT !.args = args], READ, name, args, "awaitCall")
    /\ UNCHANGED <<shape, callables, worker, state, ctorCalls, accessed, local>>
    /\ UNCHANGED <<other, envVars, sideVars>>

\* forwarder(*args)(): the client invokes a call-forwarder it holds and
\* takes the result from what the worker returned.
CallForwarder(name, args) ==
    /\ pc = "idle"
    /\ CanSend
    /\ HasForwarder(name)
    /\ name = "increment" => local.count < MaxCount
    /\ SendMsg([Begin("call", name) EXCEPT !.args = args], CALL, name, args, "awaitCall")
    /\ UNCHANGED <<shape, callables, worker, state, ctorCalls, accessed, local>>
    /\ UNCHANGED <<other, envVars, sideVars>>

\* The answer to a forwarder's CALL arrives.
RecvCall ==
    /\ pc = "awaitCall"
    /\ chan.st \in {"response", "raised"}
    /\ LET rec == [last EXCEPT !.answers = Append(@, chan.result), !.expect = chan.expect]
           out == CallOutcome(chan.result)
       IN  IF chan.st = "raised"
           THEN Finish(rec, chan.exc, NoneV)
           ELSE Finish(rec, out.tag, out.val)
    /\ UNCHANGED <<shape, callables, worker, state, ctorCalls, accessed, local>>
    /\ UNCHANGED <<other, envVars, sideVars>>

\* A length operation that sends READ for the reserved name, so that the
\* method is fetched and not invoked.
LenOpRead ==
    /\ pc = "idle"
    /\ CanSend
    /\ SendMsg(Begin("len", LenName), READ, LenName, <<>>, "awaitLen")
    /\ UNCHANGED <<shape, callables, worker, state, ctorCalls, accessed, local>>
    /\ UNCHANGED <<other, envVars, sideVars>>

\* Parallel.__len__: a CALL for the reserved name, whatever the cache holds.
\* The value recorded is the one the method returns (the built-in len()
\* would in turn reject a value that is not an integer with TypeError).
LenOp ==
    /\ pc = "idle"
    /\ CanSend
    /\ SendMsg(Begin("len", LenName), CALL, LenName, <<>>, "awaitLen")
    /\ UNCHANGED <<shape, callables, worker, state, ctorCalls, accessed, local>>
    /\ UNCHANGED <<other, envVars, sideVars>>

\* The answer to __len__'s CALL arrives.
RecvLen ==
    /\ pc = "awaitLen"
    /\ chan.st \in {"response", "raised"}
    /\ LET rec == [last EXCEPT !.answers = Append(@, chan.result), !.expect = chan.expect]
           out == CallOutcome(chan.result)
       IN  IF chan.st = "raised"
           THEN Finish(rec, chan.exc, NoneV)
           ELSE Finish(rec, out.tag, out.val)
    /\ UNCHANGED <<shape, callables, worker, state, ctorCalls, accessed, local>>
    /\ UNCHANGED <<other, envVars, sideVars>>

\* Parallel.close: the transport is torn down.
Close ==
    /\ pc = "idle"
    /\ worker' = "closed"
    /\ Finish(Begin("close", "close"), "value", NoneV)
    /\ UNCHANGED <<shape, callables, state, ctorCalls, accessed, local>>
    /\ UNCHANGED <<other, envVars, sideVars>>

(* ----------------------------------------------------------------- worker *)

\* The worker takes the request, runs the dispatcher on the persisted state
\* and answers. An exception that leaves the dispatcher ends the worker;
\* the persisted state is then not replaced.
Dispatch ==
    /\ chan.st = "request"
    /\ worker = "running"
    /\ LET r == Respond(state, chan.message, chan.name, chan.args)
           d == Direct(local, chan.message, chan.name, chan.args)
       IN  /\ ctorCalls' = IF RunsCtor(state) THEN ctorCalls + 1 ELSE ctorCalls
           /\ local' = d.state
           /\ IF r.exc = ""
              THEN /\ state' = r.state
                   /\ worker' = worker
                   /\ chan' = [chan EXCEPT !.st = "response", !.result = r.result,
                                           !.found = r.found,
                                           !.invoked = r.invoked,
                                           !.expect = [tag |-> d.tag, val |-> d.val]]
              ELSE /\ state' = state
                   /\ worker' = "dead"
                   /\ chan' = [chan EXCEPT !.st = "raised", !.exc = r.exc,
                                           !.found = r.found,
                                           !.invoked = r.invoked,
                                           !.expect = [tag |-> d.tag, val |-> d.val]]
    /\ UNCHANGED <<shape, callables, pc, last, probes, accessed>>
    /\ UNCHANGED <<other, envVars, sideVars>>

(* ------------------------------------------------------------ PinPadDense *)

\* The bounds of the model: the episode length the environment is built
\* with, and how many calls of step a run makes.
Length == 2
MaxCalls == 5

\* self.layout.shape: 16 columns (x) and 14 rows (y).
Width == 16
Height == 14
Cells == (0 .. Width - 1) \X (0 .. Height - 1)

\* self.layout[x][y] for task "three" (LAYOUT_THREE, transposed): the wall
\* around the room, the pads 1, 2 and 3, and the free floor.
Tile(x, y) ==
    IF x = 0 \/ x = Width - 1 \/ y = 0 \/ y = Height - 1 THEN "#"
    ELSE IF x \in 1 .. 4 /\ y \in 1 .. 4 THEN "1"
    ELSE IF x \in 11 .. 14 /\ y \in 1 .. 4 THEN "3"
    ELSE IF x \in 6 .. 9 /\ y \in 9 .. 12 THEN "2"
    ELSE " "

\* self.pads and self.target
pads == {"1", "2", "3"}
target == <<"1", "2", "3">>

\* self.spawns: every cell that is not a wall.
spawns == {c \in Cells : Tile(c[1], c[2]) # "#"}

\* The cells self.random may draw in a run of the model: a corner of pad 1
\* next to two walls, and a cell of the free floor.
SpawnChoices == {<<1, 1>>, <<8, 6>>}

\* self.pad_centers, doubled so that the means are integers.
PadCenter2(pad) ==
    CASE pad = "1" -> <<5, 5>>
      [] pad = "2" -> <<15, 21>>
      [] pad = "3" -> <<25, 5>>

\* The moves of the five actions.
Move(action) ==
    CASE action = 0 -> <<0, 0>>
      [] action = 1 -> <<0, 1>>
      [] action = 2 -> <<0, -1>>
      [] action = 3 -> <<1, 0>>
      [] action = 4 -> <<-1, 0>>

\* np.clip(v, lo, hi)
Clip(v, lo, hi) == IF v < lo THEN lo ELSE IF v > hi THEN hi ELSE v

NoPlayer == [some |-> FALSE, x |-> 0, y |-> 0]
At(c) == [some |-> TRUE, x |-> c[1], y |-> c[2]]

\* deque(maxlen=len(self.target)).append(tile): a full deque drops its
\* oldest entry.
DequeAppend(seq, tile) ==
    IF Len(seq) = Len(target) THEN Append(Tail(seq), tile) ELSE Append(seq, tile)

\* _compute_longest_suffix_match with its loop begun at the second entry.
suffix_match_from_second(buffer_list, target_list) ==
    LET n == Len(buffer_list)
        matches == {i \in 2 .. n :
                       /\ n - i + 1 <= Len(target_list)
                       /\ SubSeq(buffer_list, i, n) = SubSeq(target_list, 1, n - i + 1)}
        first == CHOOSE i \in matches : \A j \in matches : i <= j
    IN  IF matches = {} THEN 0 ELSE n - first + 1

\* _compute_longest_suffix_match for a deque and a target: the length of
\* the first suffix of the deque, from the longest on, that equals a prefix
\* of the target; 0 when there is none or the deque is empty.
longest_suffix_match(buffer_list, target_list) ==
    LET n == Len(buffer_list)
        matches == {i \in 1 .. n :
                       /\ n - i + 1 <= Len(target_list)
                       /\ SubSeq(buffer_list, i, n) = SubSeq(target_list, 1, n - i + 1)}
        first == CHOOSE i \in matches : \A j \in matches : i <= j
    IN  IF matches = {} THEN 0 ELSE n - first + 1

\* _compute_longest_suffix_match of the environment of task "three".
compute_longest_suffix_match(seq) == longest_suffix_match(seq, target)

\* The square of twice the distance from a cell to a doubled pad centre;
\* the code compares the square roots.
Dist2(pos, centre) ==
    (2 * pos.x - centre[1]) * (2 * pos.x - centre[1])
        + (2 * pos.y - centre[2]) * (2 * pos.y - centre[2])

\* The rewards, in units of 0.05.
DENSE_MOVE_TOWARD_REWARD == 2
DENSE_MOVE_AWAY_PENALTY == 1
DENSE_WRONG_TILE_PENALTY == 2
DENSE_CORRECT_TILE_BONUS == 20
COMPLETION_REWARD == 200

\* _compute_dense_guidance_reward(old_pos, new_pos, tile), for the deque
\* as it is before the tile is appended.
compute_dense_guidance_reward(seq, old_pos, new_pos, tile) ==
    LET next_target_idx == compute_longest_suffix_match(seq)
    IN  IF next_target_idx >= Len(target) THEN 0
        ELSE LET next_target == target[next_target_idx + 1]
                 old_dist == Dist2(old_pos, PadCenter2(next_target))
                 new_dist == Dist2(new_pos, PadCenter2(next_target))
             IN  (IF new_dist < old_dist THEN DENSE_MOVE_TOWARD_REWARD
                  ELSE IF new_dist > old_dist THEN 0 - DENSE_MOVE_AWAY_PENALTY
                  ELSE 0)
                 + (IF tile \in pads /\ tile # next_target
                    THEN 0 - DENSE_WRONG_TILE_PENALTY ELSE 0)
                 + (IF tile = next_target THEN DENSE_CORRECT_TILE_BONUS ELSE 0)

\* The shape of np.repeat(a, k, axis) and of a.transpose(perm), for an
\* array of shape sh (axes count from 0).
RepeatShape(sh, k, axis) == [sh EXCEPT ![axis + 1] = @ * k]
TransposeShape(sh, perm) == [i \in 1 .. Len(sh) |-> sh[perm[i] + 1]]

\* The shape of the image render() returns: a grid of 16 x 16 cells,
\* each repeated 4 times along both axes, then transposed.
RenderShape ==
    TransposeShape(RepeatShape(RepeatShape(<<16, 16, 3>>, 4, 0), 4, 1), <<1, 0, 2>>)

\* self._obs(reward, is_first, is_last): the observation step returns.
Obs(reward, is_first, is_last) ==
    [raised |-> "", image |-> RenderShape, reward |-> reward,
     is_first |-> is_first, is_last |-> is_last, is_terminal |-> FALSE]

\* No call of step has returned yet.
NoObs == [Obs(0, FALSE, FALSE) EXCEPT !.raised = "none"]

\* counts[x, y], for the array kept as the map of its entries above 0
VisitCount(counts, c) == IF c \in DOMAIN counts THEN counts[c] ELSE 0

\* self.position_visit_counts[x, y] += 1
Visit(counts, x, y) ==
    [c \in DOMAIN counts \cup {<<x, y>>} |->
        IF c = <<x, y>> THEN VisitCount(counts, c) + 1 ELSE counts[c]]

\* Statistics whose coverage_ratio divides the cells visited by the
\* number of visits, not by the number of cells.
get_position_stats_per_visit ==
    LET visited == {c \in spawns : VisitCount(position_visit_counts, c) > 0}
        RECURSIVE Sum(_)
        Sum(S) == IF S = {} THEN 0
                  ELSE LET c == CHOOSE c \in S : TRUE
                       IN  position_visit_counts[c] + Sum(S \ {c})
    IN  [unique_positions_visited |-> Cardinality(visited),
         total_valid_positions |-> Cardinality(spawns),
         coverage_ratio |-> [num |-> Cardinality(visited),
                             den |-> IF visited = {} THEN 1 ELSE Sum(visited)]]

\* get_position_stats(): the counts it reports; coverage_ratio is the
\* quotient num / den of two of them.
get_position_stats ==
    LET visited == {c \in spawns : VisitCount(position_visit_counts, c) > 0}
    IN  [unique_positions_visited |-> Cardinality(visited),
         total_valid_positions |-> Cardinality(spawns),
         coverage_ratio |-> [num |-> Cardinality(visited),
                             den |-> Cardinality(spawns)]]

\* a / b <= c / d for quotients with positive denominators
RatioLeq(a, b) == a.num * b.den <= b.num * a.den

\* max of the visit counts
MaxVisits(counts) ==
    LET vals == {VisitCount(counts, c) : c \in Cells}
    IN  CHOOSE m \in vals : \A v \in vals : v <= m

\* The colour get_position_heatmap gives a floor cell visited count times
\* when the largest count is max_visits: intensity = count / max_visits
\* runs from blue over green to red. Computed in exact arithmetic; the
\* float32 of the code can give the integer next below.
HeatColor(count, max_visits) ==
    LET n == count
        d == IF max_visits > 0 THEN max_visits ELSE 1
    IN  IF 4 * n < d THEN <<0, (n * 1020) \div d, 255>>
        ELSE IF 2 * n < d THEN <<0, 255, ((d - 2 * n) * 510) \div d>>
        ELSE IF 4 * n < 3 * d THEN <<((2 * n - d) * 510) \div d, 255, 0>>
        ELSE <<255, ((d - n) * 1020) \div d, 0>>

\* get_position_heatmap(): an array of one colour per cell of the layout,
\* each cell repeated 4 times along both axes, then transposed.
get_position_heatmap ==
    LET max_visits == MaxVisits(position_visit_counts)
    IN  [shape |-> TransposeShape(
                       RepeatShape(RepeatShape(<<16, 14, 3>>, 4, 0), 4, 1),
                       <<1, 0, 2>>),
         colour |-> [c \in Cells |->
                        IF Tile(c[1], c[2]) = "#" THEN <<192, 192, 192>>
                        ELSE HeatColor(VisitCount(position_visit_counts, c),
                                       max_visits)]]

\* PinPadDense(task="three", length=Length) after construction.
EnvInit ==
    /\ player = NoPlayer
    /\ sequence = <<>>
    /\ steps = 0
    /\ done = FALSE
    /\ countdown = 0
    /\ position_visit_counts = [c \in {} |-> 0]
    /\ obs = NoObs
    /\ call = [n |-> 0, action |-> 0, reset |-> FALSE, branch |-> "none",
               grant |-> FALSE, respawn |-> FALSE, moved |-> FALSE, k |-> 0,
               since |-> [calls |-> -1, steps |-> -1, wasReset |-> FALSE]]

\* Line 108 without its test of the tile.
PassableAlways(tile) == TRUE

\* Line 108: if tile != "#"
Passable(tile) == tile # "#"

\* Line 124 with > for >=.
EpisodeOverLate(n, len) == n > len

\* Line 124: self.steps >= self.length
EpisodeOver(n, len) == n >= len

\* Line 120 without its test of the countdown.
GrantsWhileCounting(seq, cd) == seq = target

\* Line 120: the completion reward is due when the deque equals the target
\* and no countdown is running.
Grants(seq, cd) == seq = target /\ cd = 0

\* The record of the last call also counts, in k, the calls past the reset
\* branch since the last call that took it.
\* What the record of the last call keeps about the last completion reward:
\* how many calls of step, and how many of them past the reset branch, have
\* followed it, and whether one of them took the reset branch. Before the
\* first completion reward the two counts are -1.
Since(c, branch, grant) ==
    IF grant THEN [calls |-> 0, steps |-> 0, wasReset |-> FALSE]
    ELSE IF c.since.calls < 0 THEN c.since
    ELSE [calls |-> c.since.calls + 1,
          steps |-> c.since.steps + (IF branch = "step" THEN 1 ELSE 0),
          wasReset |-> c.since.wasReset \/ branch = "reset"]

\* step({"action": action, "reset": reset}) of an environment built with
\* the episode length len; spawn is the cell self.random draws when the
\* call respawns the player, cap the number of calls a run makes.
StepWith(len, cap, action, reset, spawn) ==
    /\ call.n < cap
    /\ IF done \/ reset
       THEN /\ player' = At(spawn)
            /\ sequence' = <<>>
            /\ steps' = 0
            /\ done' = FALSE
            /\ countdown' = 0
            /\ obs' = Obs(0, TRUE, FALSE)
            /\ call' = [n |-> call.n + 1, action |-> action, reset |-> reset,
                        branch |-> "reset", grant |-> FALSE, respawn |-> FALSE,
                        moved |-> FALSE, k |-> 0, since |-> Since(call, "reset", FALSE)]
            /\ UNCHANGED position_visit_counts
       ELSE IF ~player.some
       THEN \* self.player is None: self.player[0] raises TypeError
            /\ obs' = [NoObs EXCEPT !.raised = "TypeError"]
            /\ call' = [n |-> call.n + 1, action |-> action, reset |-> reset,
                        branch |-> "raise", grant |-> FALSE, respawn |-> FALSE,
                        moved |-> FALSE, k |-> call.k, since |-> Since(call, "raise", FALSE)]
            /\ UNCHANGED <<player, sequence, steps, done, countdown,
                           position_visit_counts>>
       ELSE LET countdown1 == IF countdown # 0 THEN countdown - 1 ELSE countdown
                respawn == countdown # 0 /\ countdown1 = 0
                old_pos == IF respawn THEN At(spawn) ELSE player
                sequence1 == IF respawn THEN <<>> ELSE sequence
                move == Move(action)
                x == Clip(old_pos.x + move[1], 0, 15)
                y == Clip(old_pos.y + move[2], 0, 13)
                tile == Tile(x, y)
                new_pos == IF Passable(tile) THEN At(<<x, y>>) ELSE old_pos
                dense == compute_dense_guidance_reward(sequence1, old_pos, new_pos, tile)
                sequence2 == IF /\ tile \in pads
                                /\ (sequence1 = <<>> \/ sequence1[Len(sequence1)] # tile)
                             THEN DequeAppend(sequence1, tile)
                             ELSE sequence1
                grant == Grants(sequence2, countdown1)
            IN  /\ player' = new_pos
                /\ position_visit_counts' =
                       IF Passable(tile) THEN Visit(position_visit_counts, x, y)
                       ELSE position_visit_counts
                /\ sequence' = sequence2
                /\ countdown' = IF grant THEN 10 ELSE countdown1
                /\ steps' = steps + 1
                /\ done' = (done \/ EpisodeOver(steps + 1, len))
                /\ obs' = Obs(dense + (IF grant THEN COMPLETION_REWARD ELSE 0),
                              FALSE, done')
                /\ call' = [n |-> call.n + 1, action |-> action, reset |-> reset,
                            branch |-> "step", grant |-> grant,
                            respawn |-> respawn, moved |-> Passable(tile),
                            k |-> call.k + 1, since |-> Since(call, "step", grant)]
    /\ UNCHANGED <<proxyVars, sideVars>>

\* step of the environment built with length = Length.
Step(action, reset, spawn) == StepWith(Length, MaxCalls, action, reset, spawn)

\* A long episode, long enough for the pads to be walked in order and for
\* the countdown that follows to run out, and the calls a run makes: enough
\* for such an episode to end and the next to begin.
LongLength == 29
MaxWalk == 31

\* The cells self.random may draw in a long episode: the corner of pad 1
\* nearest to pad 2, and the corner of pad 1 next to two walls.
WalkSpawns == {<<4, 4>>, <<1, 1>>}

\* The columns and rows of a pad of LAYOUT_THREE.
PadBox(pad) ==
    CASE pad = "1" -> [x0 |-> 1, x1 |-> 4, y0 |-> 1, y1 |-> 4]
      [] pad = "2" -> [x0 |-> 6, x1 |-> 9, y0 |-> 9, y1 |-> 12]
      [] pad = "3" -> [x0 |-> 11, x1 |-> 14, y0 |-> 1, y1 |-> 4]

\* The action that brings a player nearer to a pad, 0 once it stands on it.
Toward(pos, pad) ==
    LET b == PadBox(pad)
    IN  IF pos.x < b.x0 THEN 3
        ELSE IF pos.x > b.x1 THEN 4
        ELSE IF pos.y < b.y0 THEN 1
        ELSE IF pos.y > b.y1 THEN 2
        ELSE 0

\* An agent that walks to the next pad of the target, and stands still once
\* the deque holds the target or before there is a player.
Route ==
    LET k == compute_longest_suffix_match(sequence)
    IN  IF ~player.some \/ k >= Len(target) THEN 0
        ELSE Toward(player, target[k + 1])

\* The inputs of a long episode: the agent follows Route, sets reset in the
\* first call, and departs from that once, either giving devAction in the
\* call numbered devAt or setting reset in the call numbered resetAt.
\* MaxWalk + 1 stands for "never".
Plans ==
    [resetAt : 2 .. MaxWalk + 1, devAt : {MaxWalk + 1}, devAction : {0}]
    \cup [resetAt : {MaxWalk + 1}, devAt : 2 .. MaxWalk, devAction : 0 .. 4]

PlannedAction == IF call.n + 1 = plan.devAt THEN plan.devAction ELSE Route
PlannedReset == call.n = 0 \/ call.n + 1 = plan.resetAt

\* One call of step in a long episode.
Walk ==
    \E spawn \in WalkSpawns :
        StepWith(LongLength, MaxWalk, PlannedAction, PlannedReset, spawn)

\* The tasks whose suffix match is computed on its own: those with 3 pads
\* up to this many.
MaxPads == 4

\* sorted(self.pads) of the task with n pads: the pads are named "1" to "8"
\* in every layout.
PadNames == <<"1", "2", "3", "4", "5", "6", "7", "8">>
TargetOf(n) == SubSeq(PadNames, 1, n)

\* Every content of deque(maxlen=len(self.target)) over the pads of the
\* task with n pads.
RECURSIVE SeqsUpTo(_, _)
SeqsUpTo(S, n) ==
    IF n = 0 THEN {<<>>}
    ELSE LET shorter == SeqsUpTo(S, n - 1)
         IN  shorter \cup {Append(q, p) : q \in {r \in shorter : Len(r) = n - 1}, p \in S}

Deques(n) == SeqsUpTo({PadNames[i] : i \in 1 .. n}, n)

\* A deque of some task, and no answer yet.
Queries ==
    UNION {{[pads |-> n, seq |-> q, k |-> 0, asked |-> FALSE] : q \in Deques(n)} :
              n \in 3 .. MaxPads}

NoQuery == [pads |-> 3, seq |-> <<>>, k |-> 0, asked |-> FALSE]

\* self._compute_longest_suffix_match() on the deque of the query.
SuffixMatch ==
    /\ ~query.asked
    /\ query' = [query EXCEPT
                    !.k = longest_suffix_match(query.seq, TargetOf(query.pads)),
                    !.asked = TRUE]
    /\ UNCHANGED <<proxyVars, envVars, plan, LOCK, locks, thread, sim>>

(* --------------------------------------------------------------- Minigrid *)

\* How many threads of the process construct a Minigrid.
NumThreads == 2
Threads == 1 .. NumThreads

\* LOCK = None, the class attribute before any constructor has stored a
\* lock; locks are numbered from 1 in the order mp.Lock() creates them.
NoLock == 0

\* A thread that has not called Minigrid(task) yet. made is the lock its
\* mp.Lock() returned, lock the one its with statement evaluated self.LOCK
\* to.
NewThread == [pc |-> "new", made |-> NoLock, lock |-> NoLock]

MinigridInit ==
    /\ LOCK = NoLock
    /\ locks = 0
    /\ thread = [t \in Threads |-> NewThread]

\* The threads inside the with block, between __enter__ and __exit__.
InLockedSection == {t \in Threads : thread[t].pc = "l39"}

\* Everything the threads of Minigrid leave alone.
MinigridFrame == UNCHANGED <<proxyVars, envVars, plan, query, sim>>

\* Thread t calls Minigrid(task).
Construct(t) ==
    /\ thread[t].pc = "new"
    /\ thread' = [thread EXCEPT ![t].pc = "l32"]
    /\ UNCHANGED <<LOCK, locks>>
    /\ MinigridFrame

\* Line 32, if self.LOCK is None: the test reads the class attribute.
TestLock(t) ==
    /\ thread[t].pc = "l32"
    /\ thread' = [thread EXCEPT ![t].pc = IF LOCK = NoLock THEN "l35" ELSE "l38"]
    /\ UNCHANGED <<LOCK, locks>>
    /\ MinigridFrame

\* Line 35, right-hand side: mp.Lock() creates a new, free lock.
CreateLock(t) ==
    /\ thread[t].pc = "l35"
    /\ locks' = locks + 1
    /\ thread' = [thread EXCEPT ![t].pc = "l35store", ![t].made = locks + 1]
    /\ UNCHANGED LOCK
    /\ MinigridFrame

\* Line 35, the assignment: Minigrid.LOCK = <the lock just created>.
StoreLock(t) ==
    /\ thread[t].pc = "l35store"
    /\ LOCK' = thread[t].made
    /\ thread' = [thread EXCEPT ![t].pc = "l38"]
    /\ UNCHANGED locks
    /\ MinigridFrame

\* Line 38, with self.LOCK: the expression is evaluated to a lock object.
ReadLock(t) ==
    /\ thread[t].pc = "l38"
    /\ thread' = [thread EXCEPT ![t].pc = "l38enter", ![t].lock = LOCK]
    /\ UNCHANGED <<LOCK, locks>>
    /\ MinigridFrame

\* Line 38, __enter__: acquire that lock, waiting while another thread
\* holds the same lock object.
EnterLock(t) ==
    /\ thread[t].pc = "l38enter"
    /\ \A u \in InLockedSection : thread[u].lock # thread[t].lock
    /\ thread' = [thread EXCEPT ![t].pc = "l39"]
    /\ UNCHANGED <<LOCK, locks>>
    /\ MinigridFrame

\* Line 39 and __exit__: gym.make(task) returns and the lock is released.
MakeEnv(t) ==
    /\ thread[t].pc = "l39"
    /\ thread' = [thread EXCEPT ![t].pc = "made"]
    /\ UNCHANGED <<LOCK, locks>>
    /\ MinigridFrame

\* Not yet begun: the agent's plan.
NoPlan == [resetAt |-> 0, devAt |-> 0, devAction |-> 0]

(* ------------------------------------------------- simulated training loop *)

\* eval_every and log_every, the same in both simulations, the steps one
\* pass of the loop trains for, and the step the loop runs up to.
eval_every == 30
log_every == 50
TrainSteps == 10
LastStep == 100

\* The evaluation's metric: its prefix and key (joined with "/" by
\* Metrics.add) and its value, eval_score = 42.0.
EvalKey == <<"eval_episode", "avg_score">>
eval_score == 42

\* The two simulations in the order __main__ calls them.
Simulations == <<"simulate_training_with_bug", "simulate_training_fixed">>

\* Metrics.add(metrics_dict, prefix): self.data[full_key] = value. The dict
\* is kept as its set of (key, value) pairs.
MetricsAdd(data, key, value) == {kv \in data : kv[1] # key} \cup {<<key, value>>}

\* Logger.add(metrics_dict): one triple (int(self.step), key, value) per
\* entry is appended to pending_metrics.
RECURSIVE LoggerAdd(_, _, _)
LoggerAdd(pending, current_step, data) ==
    IF data = {} THEN pending
    ELSE LET kv == CHOOSE e \in data : TRUE
         IN  LoggerAdd(Append(pending, <<current_step, kv[1], kv[2]>>),
                       current_step, data \ {kv})

\* sorted(by_step.keys())
RECURSIVE Sorted(_)
Sorted(S) ==
    IF S = {} THEN <<>>
    ELSE LET least == CHOOSE n \in S : \A m \in S : n <= m
         IN  <<least>> \o Sorted(S \ {least})

\* by_step[step] of Logger.write: the step and, per key, the value of the
\* last pending triple with that step and key.
ByStep(pending, step) ==
    LET at == {i \in DOMAIN pending : pending[i][1] = step}
        keys == {pending[i][2] : i \in at}
        lastOf(key) == CHOOSE i \in at :
                          /\ pending[i][2] = key
                          /\ \A j \in at : pending[j][2] = key => j <= i
    IN  [step |-> step, data |-> [key \in keys |-> pending[lastOf(key)][3]]]

\* Logger.write without its pending_metrics.clear().
LoggerWriteKeepsPending(lg) ==
    IF lg.pending = <<>> THEN lg
    ELSE LET order == Sorted({lg.pending[i][1] : i \in DOMAIN lg.pending})
         IN  [pending |-> lg.pending,
              file |-> lg.file \o [i \in DOMAIN order |-> ByStep(lg.pending, order[i])]]

\* Logger.write: nothing when nothing is pending; else one line per pending
\* step, in the order of the steps, appended to the file, and the pending
\* triples cleared.
LoggerWrite(lg) ==
    IF lg.pending = <<>> THEN lg
    ELSE LET order == Sorted({lg.pending[i][1] : i \in DOMAIN lg.pending})
         IN  [pending |-> <<>>,
              file |-> lg.file \o [i \in DOMAIN order |-> ByStep(lg.pending, order[i])]]

\* What a simulation has not met yet: a step at which it evaluated, a step
\* at which it logged.
Never == -1

\* The objects a simulation builds: StepCounter(), Metrics(), Logger(step,
\* logfile) on a new, empty file; the loop is about to test its condition.
NewSim(fn) ==
    [fn |-> fn, pc |-> "while", step |-> 0, i |-> 0, metrics |-> {},
     logger |-> [pending |-> <<>>, file |-> <<>>],
     evalAt |-> Never, logAt |-> Never]

\* What __main__ keeps of a simulation that returned: the lines of its log
\* file, and the steps at which it evaluated and logged.
NoResult == [file |-> <<>>, evalAt |-> Never, logAt |-> Never, returned |-> FALSE]

\* No simulation runs.
NoSim ==
    [NewSim("none") EXCEPT !.pc = "idle"] @@
    [calls |-> 0, result |-> [n \in DOMAIN Simulations |-> NoResult]]

\* __main__ before its first call.
SimMain == [NoSim EXCEPT !.pc = "main"]

SimFrame == UNCHANGED <<proxyVars, envVars, plan, query, LOCK, locks, thread>>

\* __main__ calls the next simulation.
SimCall ==
    /\ sim.pc = "main"
    /\ sim.calls < Len(Simulations)
    /\ sim' = NewSim(Simulations[sim.calls + 1]) @@
              [calls |-> sim.calls + 1, result |-> sim.result]
    /\ SimFrame

\* while step.value < 100
WhileTest ==
    /\ sim.pc = "while"
    /\ sim' = [sim EXCEPT !.pc = IF sim.step < LastStep THEN "eval_test" ELSE "read"]
    /\ SimFrame

\* if step.value == eval_every
EvalTest ==
    /\ sim.pc = "eval_test"
    /\ sim' = [sim EXCEPT !.pc = IF sim.step = eval_every THEN "eval" ELSE "train"]
    /\ SimFrame

\* The evaluation: metrics.add({'avg_score': eval_score},
\* prefix='eval_episode'). The fixed loop goes on to log it at once.
Evaluate ==
    /\ sim.pc = "eval"
    /\ sim' = [sim EXCEPT
                  !.metrics = MetricsAdd(sim.metrics, EvalKey, eval_score),
                  !.evalAt = sim.step,
                  !.pc = IF sim.fn = "simulate_training_fixed"
                         THEN "eval_add" ELSE "train"]
    /\ SimFrame

\* logger.add(metrics.result()), after the evaluation of the fixed loop and
\* at the logging trigger of both.
LogAdd ==
    /\ sim.pc \in {"eval_add", "log_add"}
    /\ sim' = [sim EXCEPT
                  !.logger.pending = LoggerAdd(sim.logger.pending, sim.step, sim.metrics),
                  !.pc = IF sim.pc = "eval_add" THEN "eval_write" ELSE "log_reset"]
    /\ SimFrame

\* logger.write(); the one at the logging trigger is followed by break.
LogWrite ==
    /\ sim.pc \in {"eval_write", "log_write"}
    /\ sim' = [sim EXCEPT
                  !.logger = LoggerWrite(sim.logger),
                  !.pc = IF sim.pc = "eval_write" THEN "eval_reset" ELSE "read"]
    /\ SimFrame

\* metrics.reset()
MetricsReset ==
    /\ sim.pc \in {"eval_reset", "log_reset"}
    /\ sim' = [sim EXCEPT
                  !.metrics = {},
                  !.pc = IF sim.pc = "eval_reset" THEN "train" ELSE "log_write"]
    /\ SimFrame

\* for _ in range(10): step.increment()
Train ==
    /\ sim.pc = "train"
    /\ sim' = IF sim.i < TrainSteps
              THEN [sim EXCEPT !.step = sim.step + 1, !.i = sim.i + 1]
              ELSE [sim EXCEPT !.i = 0, !.pc = "log_test"]
    /\ SimFrame

\* if step.value >= log_every and step.value < log_every + 10
LogTest ==
    /\ sim.pc = "log_test"
    /\ sim' = IF sim.step >= log_every /\ sim.step < log_every + 10
              THEN [sim EXCEPT !.pc = "log_add", !.logAt = sim.step]
              ELSE [sim EXCEPT !.pc = "while"]
    /\ SimFrame

\* The simulation reads its log file back and returns to __main__.
SimReturn ==
    /\ sim.pc = "read"
    /\ sim' = [sim EXCEPT
                  !.pc = "main",
                  !.result[sim.calls] =
                      [file |-> sim.logger.file, evalAt |-> sim.evalAt,
                       logAt |-> sim.logAt, returned |-> TRUE]]
    /\ SimFrame

(* ---------------------------------------------------------- specification *)

\* The record of operations before the first one.
NoOp ==
    [op |-> "none", name |-> "", tag |-> "none", val |-> NoneV, sent |-> <<>>,
     cached0 |-> NoAnswer, answers |-> <<>>,
     expect |-> [tag |-> "", val |-> NoneV], closed0 |-> FALSE, args |-> <<>>]

\* Parallel(ctor, strategy): a Proxy after construction, with its own
\* worker and its own empty cache; no Target is built yet.
NewProxy(id, sh) ==
    [id |-> id, shape |-> sh, callables |-> [n \in {} |-> NoAnswer],
     worker |-> "running", state |-> NoState, chan |-> Empty, pc |-> "idle",
     last |-> NoOp, ctorCalls |-> 0, probes |-> [n \in AllNames |-> 0],
     accessed |-> {}, local |-> Ctor]

\* The client turns to the other Proxy: the one addressed so far is set
\* aside as it is, its worker included.
Swap ==
    /\ other' = [id |-> 3 - other.id, shape |-> shape, callables |-> callables,
                 worker |-> worker, state |-> state, chan |-> chan, pc |-> pc,
                 last |-> last, ctorCalls |-> ctorCalls, probes |-> probes,
                 accessed |-> accessed, local |-> local]
    /\ shape' = other.shape
    /\ callables' = other.callables
    /\ worker' = other.worker
    /\ state' = other.state
    /\ chan' = other.chan
    /\ pc' = other.pc
    /\ last' = other.last
    /\ ctorCalls' = other.ctorCalls
    /\ probes' = other.probes
    /\ accessed' = other.accessed
    /\ local' = other.local
    /\ UNCHANGED <<envVars, sideVars>>

\* Parallel(ctor, strategy) for every class the constructor may build.
ProxyInit ==
    /\ shape \in CtorShapes
    /\ callables = [n \in {} |-> NoAnswer]
    /\ worker = "running"
    /\ state = NoState
    /\ chan = Empty
    /\ pc = "idle"
    /\ last = [Begin("none", "") EXCEPT !.tag = "none", !.cached0 = NoAnswer,
                                        !.closed0 = FALSE]
    /\ ctorCalls = 0
    /\ probes = [n \in AllNames |-> 0]
    /\ accessed = {}
    /\ local = Ctor
    /\ other = NewProxy(2, EnvCounter)

\* Every part of the repository after construction.
Init ==
    /\ ProxyInit
    /\ EnvInit
    /\ plan = NoPlan
    /\ query = NoQuery
    /\ MinigridInit
    /\ sim = NoSim

Next ==
    \/ \E name \in Names : Getattr(name)
    \/ RecvCallable
    \/ RecvRead
    \/ \E name \in Names, args \in ArgTuples : CallForwarder(name, args)
    \/ RecvCall
    \/ LenOp
    \/ RecvLen
    \/ Close
    \/ Dispatch

Spec == Init /\ [][Next]_vars

\* Two Proxies over different constructors, used in any interleaving. The
\* client uses the names of TwoNames and passes no argument.
TwoNames == {"increment", "count"}

InitTwo == Init /\ shape = SizedCounter

NextTwo ==
    \/ \E name \in TwoNames : Getattr(name)
    \/ RecvCallable
    \/ RecvRead
    \/ \E name \in TwoNames : CallForwarder(name, <<>>)
    \/ RecvCall
    \/ LenOp
    \/ RecvLen
    \/ Close
    \/ Dispatch
    \/ Swap

SpecTwo == InitTwo /\ [][NextTwo]_vars

\* One Proxy over a Target with a member whose getter raises: the client
\* uses the names of FaultNames and passes no argument.
InitFault == Init /\ shape \in {PlainCounter, EmptyCounter}

NextFault ==
    \/ \E name \in FaultNames : Getattr(name)
    \/ RecvCallable
    \/ RecvRead
    \/ \E name \in FaultNames : CallForwarder(name, <<>>)
    \/ RecvCall
    \/ Close
    \/ Dispatch

SpecFault == InitFault /\ [][NextFault]_vars

\* The pin-pad environment under any calls of step: every action, with and
\* without reset, and every spawn cell of SpawnChoices.
InitPinPad == Init /\ shape = PlainCounter

NextPinPad ==
    \E action \in 0 .. 4, reset \in BOOLEAN, spawn \in SpawnChoices :
        Step(action, reset, spawn)

SpecPinPad == InitPinPad /\ [][NextPinPad]_vars

\* Threads of one process constructing Minigrid environments, in every
\* interleaving of their lines.
InitMinigrid == Init /\ shape = PlainCounter

NextMinigrid ==
    \E t \in Threads :
        \/ Construct(t)
        \/ TestLock(t)
        \/ CreateLock(t)
        \/ StoreLock(t)
        \/ ReadLock(t)
        \/ EnterLock(t)
        \/ MakeEnv(t)

SpecMinigrid == InitMinigrid /\ [][NextMinigrid]_vars

\* The pin-pad environment in long episodes: the agent of Plans walks the
\* pads in order, with one action of its own choice and one reset anywhere.
InitWalk ==
    /\ ProxyInit
    /\ shape = PlainCounter
    /\ EnvInit
    /\ plan \in Plans
    /\ query = NoQuery
    /\ MinigridInit
    /\ sim = NoSim

NextWalk == Walk

SpecWalk == InitWalk /\ [][NextWalk]_vars

\* _compute_longest_suffix_match on every deque of every task of Queries.
InitSuffix ==
    /\ ProxyInit
    /\ shape = PlainCounter
    /\ EnvInit
    /\ plan = NoPlan
    /\ query \in Queries
    /\ MinigridInit
    /\ sim = NoSim

NextSuffix == SuffixMatch

SpecSuffix == InitSuffix /\ [][NextSuffix]_vars

\* __main__ of test_eval_timing_simple.py: the simulation with the bug,
\* then the fixed one, statement by statement.
InitSim ==
    /\ ProxyInit
    /\ shape = PlainCounter
    /\ EnvInit
    /\ plan = NoPlan
    /\ query = NoQuery
    /\ MinigridInit
    /\ sim = SimMain

NextSim ==
    \/ SimCall
    \/ WhileTest
    \/ EvalTest
    \/ Evaluate
    \/ LogAdd
    \/ LogWrite
    \/ MetricsReset
    \/ Train
    \/ LogTest
    \/ SimReturn

SpecSim == InitSim /\ [][NextSim]_vars

(* ------------------------------------------------------------ properties *)

\* The operation recorded in last has returned to its caller (or raised).
Done(op) == last.op = op /\ last.tag \notin {"pending", "none"}

\* The Target the next lookup for a Proxy message is made on, before any
\* message as built by the constructor.
CurTarget == IF state.some THEN state ELSE Ctor

\* C1: over any sequence of messages processed by the dispatcher, the
\* constructor is invoked exactly once, on the first message, and never
\* again, for every Target whatever its truth value.
C1_CtorExactlyOnce ==
    /\ ctorCalls <= 1
    /\ chan.st \in {"response", "raised"} => ctorCalls = 1

\* C2: on the counter whose count of entries is 0, the n-th increment()
\* returns n, a read of count returns the number of increments processed so
\* far, an absent name raises member-not-found and the length is 0.
C2_CounterScenario ==
    (shape = EmptyCounter /\ ~local.morphed /\ ~last.closed0) =>
        /\ (Done("call") /\ last.name = "increment" /\ last.tag = "value")
               => last.val = IntV(local.count)
        /\ (Done("getattr") /\ last.name = "count" /\ last.tag # "TransportFault")
               => (last.tag = "value" /\ last.val = IntV(local.count))
        /\ (Done("getattr") /\ last.name = "extra" /\ last.tag # "TransportFault")
               => last.tag = "AttributeError"
        /\ (Done("len") /\ last.tag # "TransportFault")
               => (last.tag = "value" /\ last.val = IntV(0))

\* C3: a CALL is answered by the ErrorSentinel only when the lookup of the
\* named member itself fails; when the member exists and invoking it raises
\* (a missing-member error inside the body included), no sentinel is
\* returned.
C3_SentinelOnlyOnLookupFailure ==
    (chan.st = "response" /\ chan.message = CALL /\ chan.result = ERROR_ATTRIBUTE)
        => ~chan.found

\* C4: no Proxy operation hands the ErrorSentinel to its caller: an
\* operation one of whose messages was answered by the sentinel raises
\* member-not-found.
C4_SentinelNeverHandedOut ==
    /\ last.tag = "value" => last.val # ERROR_ATTRIBUTE
    /\ (last.tag \notin {"pending", "none"}
        /\ \E i \in 1..Len(last.answers) : last.answers[i] = ERROR_ATTRIBUTE)
           => last.tag = "AttributeError"

\* C5: after close(), every member access fails with an error, whatever the
\* cache holds for the name; none returns a value or a call-forwarder.
C5_AccessAfterCloseFails ==
    (Done("getattr") /\ last.closed0 /\ last.name \notin ProxyOwn)
        => last.tag \in {"AttributeError", "TransportFault"}

\* C6: for every name n that is not private and denotes a callable on
\* Target (names the Proxy itself defines, such as close, included), the
\* access yields a call-forwarder, and invoking forwarders gives what the
\* same invocations give on a local instance built by the same constructor.
C6_ForwarderEquivalence ==
    /\ (Done("getattr") /\ ~IsPrivate(last.name) /\ ~last.closed0
        /\ last.tag # "TransportFault"
        /\ HasMember(CurTarget, last.name) /\ IsMethod(last.name))
           => last.tag = "forwarder"
    /\ (Done("call") /\ last.sent # <<>>)
           => (last.tag = last.expect.tag /\ last.val = last.expect.val)

\* The sum of probes over a set of names.
RECURSIVE SumProbes(_)
SumProbes(S) ==
    IF S = {} THEN 0
    ELSE LET n == CHOOSE x \in S : TRUE IN probes[n] + SumProbes(S \ {n})

\* The names whose access goes through __getattr__ to the dispatcher.
Proxied == {n \in Names : ~IsPrivate(n) /\ n \notin ProxyOwn}

C8_AbsentNameRaises ==
    (Done("getattr") /\ ~IsPrivate(last.name) /\ ~last.closed0
     /\ last.tag # "TransportFault") =>
        /\ (last.cached0 = NoAnswer /\ ~HasMember(CurTarget, last.name))
               => (last.tag = "AttributeError" /\ last.sent = <<CALLABLE>>)
        /\ last.cached0 = ERROR_ATTRIBUTE
               => (last.tag = "AttributeError" /\ last.sent = <<>>)

\* C8 as amended: for a non-private name that the Proxy object does not
\* itself define: a CALLABLE probe for a name absent from Target is
\* answered by the sentinel; the access that sent it sends no other
\* message and fails with member-not-found; every later access of the name
\* fails with member-not-found and sends no message, whether or not Target
\* has acquired the member or the Proxy was closed meanwhile.
C8_AbsentProxiedNameRaises ==
    /\ (chan.st \in {"response", "raised"} /\ chan.message = CALLABLE /\ ~chan.found)
           => (chan.st = "response" /\ chan.result = ERROR_ATTRIBUTE)
    /\ (Done("getattr") /\ last.name \in Proxied) =>
        /\ (last.cached0 = NoAnswer /\ last.sent # <<>>
            /\ ~HasMember(CurTarget, last.name))
               => /\ last.tag = "AttributeError"
                  /\ last.sent = <<CALLABLE>>
                  /\ last.answers = <<ERROR_ATTRIBUTE>>
                  /\ callables[last.name] = ERROR_ATTRIBUTE
        /\ last.cached0 = ERROR_ATTRIBUTE
               => /\ last.tag = "AttributeError"
                  /\ last.sent = <<>>
                  /\ callables[last.name] = ERROR_ATTRIBUTE

\* C8 witness: a later access of a name cached as absent has failed
\* without a message although Target has the member by now.
C8_Witness ==
    /\ Done("getattr")
    /\ last.cached0 = ERROR_ATTRIBUTE
    /\ last.tag = "AttributeError"
    /\ last.sent = <<>>
    /\ HasMember(CurTarget, last.name)

\* C9: for each Command kind, when the named member does not exist on
\* Target the dispatcher returns normally with the ErrorSentinel, paired
\* with a persisted state that holds the Target it looked the name up on
\* (the newly constructed one when there was none).
C9_LookupFailureReturnsSentinel ==
    [][(chan.st = "request" /\ chan'.st # "request" /\ ~chan'.found) =>
          /\ chan'.st = "response"
          /\ chan'.result = ERROR_ATTRIBUTE
          /\ worker' = "running"
          /\ state'.some
          /\ state' = (IF RunsCtor(state) THEN Ctor ELSE state)
          /\ ~HasMember(state', chan.name)]_vars

\* C9 witness: the first message, a CALL, named a member Target lacks and
\* was answered by the sentinel with the new Target persisted.
C9_Witness ==
    /\ chan.st = "response"
    /\ chan.message = CALL
    /\ ~chan.found
    /\ chan.result = ERROR_ATTRIBUTE
    /\ ctorCalls = 1
    /\ state = Ctor
    /\ callables = [n \in {} |-> NoAnswer]

\* C10: an access of a name classified as non-callable sends exactly one
\* READ and returns the value the member has on Target when the READ is
\* processed, with the effect of every CALL processed before it.
C10_ReadReflectsCalls ==
    (Done("getattr") /\ last.tag = "value") =>
        /\ Len(SelectSeq(last.sent, LAMBDA m : m = READ)) = 1
        /\ last.expect.tag = "value"
        /\ last.val = last.expect.val

\* C11: an access of a name cached as callable sends no message and gives
\* a call-forwarder; an invocation of a forwarder that the transport accepts
\* sends exactly one CALL that carries the name and the caller's arguments,
\* and the caller gets the dispatcher's result for it as it is.
C11_ForwarderSendsOneCall ==
    /\ (Done("getattr") /\ last.cached0 = BoolV(TRUE)) =>
           (last.sent = <<>> /\ last.tag = "forwarder")
    /\ (last.op = "call" /\ pc = "awaitCall") =>
           /\ last.sent = <<CALL>>
           /\ chan.message = CALL
           /\ chan.name = last.name
           /\ chan.args = last.args
    /\ (Done("call") /\ last.tag # "TransportFault") =>
           /\ last.sent = <<CALL>>
           /\ Len(last.answers) = 1
           /\ last.answers[1] # NoAnswer =>
                  (last.tag = "value" /\ last.val = last.answers[1])

\* C11 witness: a forwarder for increment, probed once, was invoked a second
\* time; one CALL went out and the caller holds the method's result.
C11_Witness ==
    /\ Done("call")
    /\ last.name = "increment"
    /\ probes["increment"] = 1
    /\ last.sent = <<CALL>>
    /\ last.tag = "value"
    /\ last.val = IntV(2)

\* C12: for a Target that has a count k, a length operation the transport
\* accepts sends exactly one message, a CALL for the reserved name, and
\* returns k; no step of it sends a CALLABLE or touches the capability cache.
C12_LenIsOneCall ==
    /\ [](/\ (last.op = "len" /\ pc = "awaitLen") =>
                 /\ last.sent = <<CALL>>
                 /\ chan.message = CALL
                 /\ chan.name = LenName
                 /\ chan.args = <<>>
          /\ (Done("len") /\ last.tag # "TransportFault" /\ shape.hasLen) =>
                 /\ last.sent = <<CALL>>
                 /\ last.tag = "value"
                 /\ last.val = IntV(shape.lenVal)
          /\ LenName \notin DOMAIN callables)
    /\ [][(pc = "awaitLen" \/ pc' = "awaitLen") =>
              (callables' = callables /\ probes' = probes)]_vars

\* C12 witness: with entries of both kinds in the cache, the length of a
\* Target that counts one element was taken and came back as 1.
C12_Witness ==
    /\ Done("len")
    /\ shape = SizedCounter
    /\ last.val = IntV(1)
    /\ last.sent = <<CALL>>
    /\ \E n \in DOMAIN callables : callables[n] = BoolV(TRUE)
    /\ \E n \in DOMAIN callables : callables[n] = BoolV(FALSE)

\* C13: an access of a name that starts with "_" raises AttributeError at
\* once, without a message to the dispatcher and without a change of the
\* capability cache, although Target has a member of that name.
C13_PrivateNameFails ==
    (Done("getattr") /\ last.name \in {"_count", "_respond"}) =>
        /\ last.tag = "AttributeError"
        /\ last.sent = <<>>
        /\ last.answers = <<>>

\* C13, amended: the same for the private names that the Proxy object does
\* not itself define; an access of a private name is one step that sends
\* nothing and leaves the cache, the probe counts and Target as they were.
C13_PrivateNameFailsLocally ==
    /\ [](/\ (Done("getattr") /\ last.name = "_count") =>
                 /\ last.tag = "AttributeError"
                 /\ last.sent = <<>>
                 /\ last.answers = <<>>
          /\ \A n \in {"_count", "_respond"} :
                 /\ n \notin DOMAIN callables
                 /\ probes[n] = 0
                 /\ chan.name # n)
    /\ [][(last'.op = "getattr" /\ last'.name \in {"_count", "_respond"}
              /\ last' # last) =>
              /\ pc' = "idle"
              /\ chan' = Empty
              /\ callables' = callables
              /\ probes' = probes
              /\ state' = state]_vars

\* C13 witness: with a Target built and entries in the cache, the private
\* name that Target has was accessed while the worker accepts messages.
C13_Witness ==
    /\ Done("getattr")
    /\ last.name = "_count"
    /\ last.tag = "AttributeError"
    /\ HasMember(CurTarget, "_count")
    /\ state.some
    /\ worker = "running"
    /\ DOMAIN callables # {}

\* C14: every entry of the capability cache is True, False or the
\* sentinel, and no step removes an entry or changes its value: the set of
\* cached names only grows.
C14_CacheMonotone ==
    /\ [](\A n \in DOMAIN callables :
              callables[n] \in {BoolV(TRUE), BoolV(FALSE), ERROR_ATTRIBUTE})
    /\ [][\A n \in DOMAIN callables :
              n \in DOMAIN callables' /\ callables'[n] = callables[n]]_vars

\* C14 witness: the cache holds an entry of each kind, Target has since
\* gained the member cached as absent, and the Proxy was closed.
C14_Witness ==
    /\ \E n \in DOMAIN callables : callables[n] = BoolV(TRUE)
    /\ \E n \in DOMAIN callables : callables[n] = BoolV(FALSE)
    /\ "extra" \in DOMAIN callables
    /\ callables["extra"] = ERROR_ATTRIBUTE
    /\ state.morphed
    /\ worker = "closed"

\* The messages of the current operation that have not been answered yet.
InFlight == Len(last.sent) - Len(last.answers)

C16_ProxiesIndependent ==
    /\ [][other'.id = other.id =>
              /\ other'.callables = other.callables
              /\ other'.worker = other.worker
              /\ other'.state = other.state
              /\ other'.ctorCalls = other.ctorCalls]_vars
    /\ [](/\ state.some => ctorCalls >= 1
          /\ other.state.some => other.ctorCalls >= 1
          /\ (Done("len") /\ last.tag = "value") => last.val = IntV(shape.lenVal)
          /\ (other.last.op = "len" /\ other.last.tag = "value") =>
                 other.last.val = IntV(other.shape.lenVal))

\* C16 witness: both Proxies were used; the one addressed was closed with
\* an empty cache after a length operation, the other still runs, holds
\* increment in its cache and a Target that counted to two.
C16_Witness ==
    /\ worker = "closed"
    /\ DOMAIN callables = {}
    /\ state.some
    /\ state.count = 0
    /\ other.worker = "running"
    /\ DOMAIN other.callables = {"increment"}
    /\ other.state.count = 2
    /\ other.shape # shape

\* C17: no call of step (a move, a blocked move, an explicit reset, the
\* reset after the end of an episode, a call that raises) lowers the
\* coverage_ratio of get_position_stats, and none lowers a visit count.
C17_CoverageNeverDecreases ==
    [][/\ RatioLeq(get_position_stats.coverage_ratio,
                   get_position_stats'.coverage_ratio)
       /\ \A c \in Cells : VisitCount(position_visit_counts', c)
                               >= VisitCount(position_visit_counts, c)]_vars

\* C17 witness: after steps that visited two cells the episode ended and
\* the next call, without reset, respawned the player; the visits stay.
C17_Witness ==
    /\ obs.is_first
    /\ ~call.reset
    /\ get_position_stats.unique_positions_visited = 2
    /\ get_position_stats.coverage_ratio = [num |-> 2, den |-> 168]

\* C18: after a reset and any steps, get_position_heatmap returns an image
\* of shape (64, 64, 3), the shape of the image observation, with every
\* channel value an integer in 0 .. 255.
C18_HeatmapShapeAndRange ==
    player.some =>
        /\ get_position_heatmap.shape = <<64, 64, 3>>
        /\ get_position_heatmap.shape = obs.image
        /\ \A c \in Cells : \A k \in 1 .. 3 :
               get_position_heatmap.colour[c][k] \in 0 .. 255

\* C19: a READ for a name is with the worker only while the cache holds
\* False for the name, and a forwarder's CALL only while it holds True; a
\* READ or CALL for a name (the reserved name of the length operation
\* apart) is preceded by an answered CALLABLE for it; an access that
\* misses the cache and finds a value member sends CALLABLE, then READ,
\* the READ after the CALLABLE's answer arrived.
C19_ProtocolOrder ==
    /\ (chan.st # "empty" /\ chan.message = READ) =>
           /\ chan.name \in DOMAIN callables
           /\ callables[chan.name] = BoolV(FALSE)
           /\ probes[chan.name] = 1
    /\ (chan.st # "empty" /\ chan.message = CALL /\ chan.name # LenName) =>
           /\ chan.name \in DOMAIN callables
           /\ callables[chan.name] = BoolV(TRUE)
           /\ probes[chan.name] = 1
    /\ (chan.st # "empty" /\ chan.message = CALLABLE) =>
           /\ chan.name \notin DOMAIN callables
           /\ last.sent = <<CALLABLE>>
    /\ (last.op = "getattr" /\ Len(last.sent) = 2) =>
           /\ last.sent = <<CALLABLE, READ>>
           /\ Len(last.answers) >= 1
           /\ last.answers[1] = BoolV(FALSE)
    /\ (Done("getattr") /\ last.cached0 = NoAnswer /\ last.answers # <<>>
          /\ last.answers[1] = BoolV(FALSE)) =>
           last.sent = <<CALLABLE, READ>>
    /\ Len(last.sent) <= 2

\* C19 witness: an access of count missed the cache; its CALLABLE was
\* answered False, the entry is stored and the READ is with the worker.
C19_Witness ==
    /\ pc = "awaitRead"
    /\ chan.st = "request"
    /\ chan.message = READ
    /\ chan.name = "count"
    /\ last.sent = <<CALLABLE, READ>>
    /\ last.answers = <<BoolV(FALSE)>>
    /\ callables["count"] = BoolV(FALSE)

\* C20: when the READ of an access is answered by the sentinel, the access
\* raises AttributeError and the cache entry of the name stays False; an
\* access of a name cached as False sends no CALLABLE, and exactly one
\* READ when the worker accepts it.
C20_DefensiveRecheck ==
    /\ (Done("getattr") /\ last.sent # <<>> /\ last.sent[Len(last.sent)] = READ
          /\ last.answers[Len(last.answers)] = ERROR_ATTRIBUTE) =>
           /\ last.tag = "AttributeError"
           /\ callables[last.name] = BoolV(FALSE)
    /\ (last.op = "getattr" /\ last.cached0 = BoolV(FALSE)) =>
           /\ last.sent \in {<<>>, <<READ>>}
           /\ callables[last.name] = BoolV(FALSE)
           /\ (Done("getattr") /\ last.tag # "TransportFault") => last.sent = <<READ>>

\* C20 witness: count was cached as a value, morph() then removed it from
\* Target; the access that followed sent a READ only, got the sentinel and
\* raised, and the entry is still False after a single probe.
C20_Witness ==
    /\ Done("getattr")
    /\ last.name = "count"
    /\ last.cached0 = BoolV(FALSE)
    /\ last.sent = <<READ>>
    /\ last.answers = <<ERROR_ATTRIBUTE>>
    /\ last.tag = "AttributeError"
    /\ callables["count"] = BoolV(FALSE)
    /\ probes["count"] = 1

\* C21: every message the Proxy sends is a CALLABLE, a CALL or a READ, and
\* a CALLABLE or READ carries no argument; so the dispatcher never fails
\* its assertion on the arguments and never returns without a result.
C21_MessagesWellFormed ==
    /\ chan.st # "empty" =>
           /\ chan.message \in {CALLABLE, CALL, READ}
           /\ chan.message \in {CALLABLE, READ} => chan.args = <<>>
    /\ chan.exc \notin {"AssertionError", "UnboundLocalError"}
    /\ last.tag \notin {"AssertionError", "UnboundLocalError"}
    /\ \A i \in 1 .. Len(last.sent) : last.sent[i] \in {CALLABLE, CALL, READ}
    /\ chan.st = "response" => chan.result # NoAnswer

\* C21 witness: a forwarder was invoked with an argument; the CALL carried
\* it, the dispatcher ran the method, which rejected the argument.
C21_Witness ==
    /\ chan.st = "raised"
    /\ chan.message = CALL
    /\ chan.args = <<1>>
    /\ chan.exc = "TypeError"
    /\ Len(last.sent) = 1

C24_OneLockOneMaker ==
    /\ locks <= 1
    /\ Cardinality(InLockedSection) <= 1

\* The reward of an observation includes the completion reward of 10: the
\* dense guidance alone is at most 1.1.
Rewarded(o) ==
    /\ o.raised = ""
    /\ o.reward >= COMPLETION_REWARD - DENSE_MOVE_AWAY_PENALTY - DENSE_WRONG_TILE_PENALTY

\* What every call of step keeps about the completion reward: it is granted
\* only by a step that ends with the deque equal to the target and that
\* found no countdown running after its decrement, it sets the countdown to
\* 10, and none of the 10 calls after a grant grants again.
GrantRules ==
    /\ Rewarded(obs') <=> call'.grant
    /\ Rewarded(obs') =>
          /\ call'.branch = "step"
          /\ sequence' = target
          /\ countdown <= 1
          /\ countdown' = 10
          /\ call.since.calls < 0 \/ call.since.calls >= 10

\* The call just made respawned the player at the end of a countdown and
\* cleared the deque (the tile the player then stands on may be in it).
CountdownRespawn ==
    /\ call'.respawn
    /\ countdown' = 0
    /\ Len(sequence') <= 1

\* C25 as stated: the completion reward obeys GrantRules, and the 10th step
\* past the reset branch that follows a grant respawns the player and
\* clears the deque, whatever calls came in between.
C25_TenthStepRespawns ==
    [][/\ GrantRules
       /\ (call'.branch = "step" /\ call'.since.steps = 10) => CountdownRespawn]_vars

\* C25, amended: the completion reward obeys GrantRules; while no call after
\* the grant has taken the reset branch the countdown is 10 less the steps
\* made since, and the 10th of them respawns the player and clears the
\* deque; a call that takes the reset branch ends the countdown, and no
\* later step respawns.
C25_CountdownUnlessReset ==
    [][/\ GrantRules
       /\ (call'.branch = "step" /\ call'.since.steps \in 0 .. 10
           /\ ~call'.since.wasReset) =>
              /\ countdown' = 10 - call'.since.steps
              /\ call'.since.steps = 10 => CountdownRespawn
              /\ call'.since.steps < 10 => ~call'.respawn /\ sequence' = target
       /\ (call'.since.calls >= 0 /\ call'.since.wasReset) =>
              /\ countdown' = 0
              /\ ~call'.respawn]_vars

\* A countdown that ran out: ten steps after the grant, none of them a
\* reset, the player was respawned and the deque cleared.
C25_Witness ==
    /\ call.branch = "step"
    /\ call.since.steps = 10
    /\ ~call.since.wasReset
    /\ call.respawn
    /\ countdown = 0
    /\ Len(sequence) <= 1
    /\ player.some

\* C26: counting from the last call that took the reset branch, the k-th
\* step reports is_last exactly when k is the episode length, and no step
\* is counted beyond it; the call after an observation with is_last takes
\* the reset branch whatever its action and its reset flag, and returns
\* is_first with reward 0, leaving an empty deque, step count 0 and no
\* countdown.
C26_LastAtLengthThenReset ==
    [][/\ call'.branch = "step" =>
              /\ call'.k <= Length
              /\ obs'.is_last <=> call'.k = Length
              /\ ~obs'.is_first
       /\ obs.is_last =>
              /\ call'.branch = "reset"
              /\ obs'.is_first /\ ~obs'.is_last
              /\ obs'.reward = 0
              /\ sequence' = <<>>
              /\ steps' = 0
              /\ countdown' = 0
              /\ player'.some]_vars

\* An episode ran to its length and the next call, a move without the
\* reset flag, was answered by a reset.
C26_Witness ==
    /\ call.branch = "reset"
    /\ ~call.reset
    /\ call.action = 3
    /\ call.n = Length + 2
    /\ obs.is_first
    /\ obs.reward = 0
    /\ steps = 0

\* C27: once a call of step has taken the reset branch the player stands
\* on a cell of the 16 x 14 layout that is not a wall; a reset puts it on a
\* cell of self.spawns, none of which is a wall; and a step whose move
\* leads onto a wall tile, and that is not the respawn at the end of a
\* countdown, leaves the position as it was.
C27_PlayerNeverInWall ==
    /\ [](/\ player.some =>
                /\ <<player.x, player.y>> \in Cells
                /\ Tile(player.x, player.y) # "#"
          /\ call.branch \in {"reset", "step"} => player.some
          /\ \A c \in spawns : c \in Cells /\ Tile(c[1], c[2]) # "#")
    /\ [][/\ call'.branch = "reset" => <<player'.x, player'.y>> \in spawns
          /\ (call'.branch = "step" /\ ~call'.respawn) =>
                LET move == Move(call'.action)
                    x == player.x + move[1]
                    y == player.y + move[2]
                IN  IF Tile(x, y) = "#" THEN player' = player
                    ELSE player' = At(<<x, y>>)]_vars

\* The player, in the corner of pad 1, moved against the wall above it and
\* stayed where it was.
C27_Witness ==
    /\ call.branch = "step"
    /\ call.action = 2
    /\ ~call.moved
    /\ ~call.respawn
    /\ player = At(<<1, 1>>)

\* The last j entries of the deque of the query are the first j entries of
\* the target of its task.
SuffixIsPrefix(j) ==
    LET n == Len(query.seq)
    IN  /\ j <= n
        /\ j <= query.pads
        /\ \A i \in 1 .. j : query.seq[n - j + i] = PadNames[i]

\* C28: for every deque no longer than the target, the answer of
\* _compute_longest_suffix_match is the largest k such that the last k
\* entries of the deque equal the first k entries of the target; it is 0
\* when no non-empty suffix does and when the deque is empty.
C28_LargestMatchingSuffix ==
    query.asked =>
        /\ Len(query.seq) <= query.pads
        /\ query.k \in 0 .. Len(query.seq)
        /\ SuffixIsPrefix(query.k)
        /\ \A j \in query.k + 1 .. Len(query.seq) : ~SuffixIsPrefix(j)
        /\ (\A j \in 1 .. Len(query.seq) : ~SuffixIsPrefix(j)) => query.k = 0
        /\ query.seq = <<>> => query.k = 0

\* A full deque that is the target itself: the whole of it matches.
C28_Witness ==
    /\ query.asked
    /\ query.pads = 3
    /\ query.seq = <<"1", "2", "3">>
    /\ query.k = 3

\* The lines of a log file that carry the evaluation's metric.
EvalLines(file) == {i \in DOMAIN file : EvalKey \in DOMAIN file[i].data}

\* C29: the fixed loop writes the evaluation's metric to its log file
\* exactly once, in a line tagged with the step at which the evaluation was
\* triggered (eval_every), and not again at the later logging trigger; the
\* loop with the bug writes it once, in a line tagged with the step of the
\* next logging trigger, which is later than the step of the evaluation.
C29_EvalLoggedAtEvalStep ==
    /\ sim.fn = "simulate_training_fixed" =>
          /\ Cardinality(EvalLines(sim.logger.file)) <= 1
          /\ \A i \in EvalLines(sim.logger.file) :
                sim.logger.file[i].step = 30 /\ sim.evalAt = 30
    /\ sim.result[2].returned =>
          LET r == sim.result[2]
          IN  /\ Cardinality(EvalLines(r.file)) = 1
              /\ \A i \in EvalLines(r.file) :
                    r.file[i].step = r.evalAt /\ r.file[i].data[EvalKey] = 42
              /\ r.evalAt = 30
              /\ r.logAt > r.evalAt
              /\ \A i \in DOMAIN r.file : r.file[i].step # r.logAt
    /\ sim.result[1].returned =>
          LET r == sim.result[1]
          IN  /\ Cardinality(EvalLines(r.file)) = 1
              /\ \A i \in EvalLines(r.file) :
                    r.file[i].step = r.logAt /\ r.file[i].data[EvalKey] = 42
              /\ r.evalAt = 30
              /\ r.logAt = 50
              /\ r.logAt > r.evalAt

\* Both simulations have returned: the log of the loop with the bug holds
\* the metric at step 50, the log of the fixed loop at step 30.
C29_Witness ==
    /\ sim.pc = "main"
    /\ sim.calls = 2
    /\ sim.result[1].file = <<[step |-> 50, data |-> [key \in {EvalKey} |-> 42]]>>
    /\ sim.result[2].file = <<[step |-> 30, data |-> [key \in {EvalKey} |-> 42]]>>
    /\ sim.result[2].logAt = 50

====
